---- MODULE Spec2Model ----
(***************************************************************************)
(* Cognivo python-api (src/Website/python-api/main.py).                    *)
(*                                                                         *)
(* The streaming tool-call relay stream_ai_response: one chat turn         *)
(* consumes the upstream model events one by one and yields the outward    *)
(* events text_delta, tool_start, canvas_update, tool_finish, error, done. *)
(*                                                                         *)
(* JSON texts are sequences of lexical tokens; json.loads is the parser    *)
(* json_loads below, run once on the buffered tool argument and once on    *)
(* the decoded canvas_json string.                                         *)
(*                                                                         *)
(* The upstream is the event source of anthropic_client.messages.stream:   *)
(* it opens content blocks, sends the deltas of the block it has open, may *)
(* omit a content_block_stop, and may end or fail at any point.  The loop  *)
(* of the relay has no exit at message_stop (main.py:588-636), so whatever *)
(* the upstream delivers after it is handled like any other event.  Each   *)
(* action is the handling of one upstream event, with all it yields; the   *)
(* awaited track_token_usage of message_stop is a step of its own, since   *)
(* the relay is suspended in it before it yields done.                     *)
(*                                                                         *)
(* POST /api/process-file (process_file, generate_subsets_with_claude) is  *)
(* the second specification, FileSpec: one request is decoded, read,       *)
(* handed to the model, accounted for and answered, with one action per    *)
(* await.  The two specifications share the client configuration and the   *)
(* record of the calls made to the collaborators.                          *)
(*                                                                         *)
(* Further specifications over the same variables: OneRequestSpec (the     *)
(* service handles one request, a chat turn or a file analysis),           *)
(* PromptSpec (one call of build_system_prompt), ServiceSpec (the routes   *)
(* of the app, the validation of a request body and the handlers without   *)
(* the event loop of the relay) and TwoTurnSpec (two chat turns that the   *)
(* event loop interleaves).                                                *)
(***************************************************************************)
EXTENDS Integers, Sequences, FiniteSets, TLC

VARIABLES
    current_tool_use,   \* main.py:523  name of the tool block being accumulated, or "None"
    tool_input_buffer,  \* main.py:524  concatenation of the partial_json fragments
    out,                \* the outward stream: the events yielded so far, in order
    pc,                 \* "request": POST /api/chat/stream not yet handled;
                        \* "streaming": in the async-for loop; "tracking": inside
                        \* the awaited track_token_usage of line 627; "ended": the
                        \* response body is exhausted; "failed": the generator
                        \* returned through the except handler of line 638
    ublock,             \* upstream: kind of the content block the model has open
    blk,                \* history: number of tool_use blocks started so far
    last,               \* history: the upstream event handled last, with the
                        \* accumulator and the length of out before it, and
                        \* how the accounting post of that event went
    nevents,            \* history: number of upstream events consumed
    nfrags,             \* history: number of partial_json deltas consumed
    received,           \* history: the text fragments received, in arrival order
    ANTHROPIC_API_KEY,  \* main.py:36  the key of the environment, "" when unset
    calls,              \* history: the calls made to the collaborators (prompt
                        \* builder, model, accounting store), in order
    fpc,                \* position of process_file: "idle", "calling" (awaiting
                        \* the model), "tracking" (awaiting track_token_usage),
                        \* "responded"
    file_request,       \* the FileProcessingRequest being handled
    response_text,      \* main.py:262  the text the model returned
    file_response,      \* the HTTP answer of POST /api/process-file
    suspended,          \* the locals and the response body of a second chat
                        \* turn, while the event loop runs the first
    system_prompt,      \* what build_system_prompt was called with and returned
    service_response    \* the answer to the last request that holds no await:
                        \* GET /health, or a request the router rejects

file_vars == <<fpc, file_request, response_text, file_response>>

other_vars == <<suspended, system_prompt, service_response>>

vars == <<current_tool_use, tool_input_buffer, out, pc, ublock, blk, last,
          nevents, nfrags, received, ANTHROPIC_API_KEY, calls, file_vars,
          other_vars>>

\* main.py:40
anthropic_client == IF ANTHROPIC_API_KEY # "" THEN "client" ELSE "None"

(***************************************************************************)
(* Bounds of the model.                                                    *)
(***************************************************************************)
MaxEvents == 5
MaxFrags == 2
MaxTexts == 2
MaxSheets == 2
MaxSources == 2
MaxTurnEvents == 8

(***************************************************************************)
(* JSON texts.  A token is one lexical unit: a structural character, the   *)
(* quote Q, the escaped quote EQ (backslash quote inside a string          *)
(* literal), a digit, the literal NaN, or a run of letters that is never   *)
(* split.                                                                  *)
(***************************************************************************)
NoVal == [t |-> "none", s |-> <<>>, m |-> <<>>]
JStr(chars) == [t |-> "str", s |-> chars, m |-> <<>>]
JNumber(digit) == [t |-> "num", s |-> <<digit>>, m |-> <<>>]
JNum == JNumber("5")
\* float('nan'), which json.loads returns for the literal NaN
JNaN == [t |-> "nan", s |-> <<>>, m |-> <<>>]
JList(elems) == [t |-> "arr", s |-> <<>>, m |-> elems]
JArr == JList(<<>>)
JObj(members) == [t |-> "obj", s |-> <<>>, m |-> members]

Fail == [ok |-> FALSE, next |-> 0, val |-> NoVal]
Ok(i, v) == [ok |-> TRUE, next |-> i, val |-> v]

Tok(s, i) == IF i <= Len(s) THEN s[i] ELSE "EOF"

RECURSIVE ScanString(_, _, _)
\* s[i] is the token after an opening quote; acc is the decoded content so far.
ScanString(s, i, acc) ==
    IF i > Len(s) THEN Fail
    ELSE IF s[i] = "Q" THEN Ok(i + 1, JStr(acc))
    ELSE IF s[i] = "EQ" THEN ScanString(s, i + 1, Append(acc, "Q"))
    ELSE ScanString(s, i + 1, Append(acc, s[i]))

RECURSIVE ParseValue(_, _)
RECURSIVE ParseMembers(_, _, _)
RECURSIVE ParseElements(_, _, _)

ParseValue(s, i) ==
    CASE Tok(s, i) = "{" ->
            IF Tok(s, i + 1) = "}" THEN Ok(i + 2, JObj(<<>>))
            ELSE ParseMembers(s, i + 1, <<>>)
      [] Tok(s, i) = "[" ->
            IF Tok(s, i + 1) = "]" THEN Ok(i + 2, JArr)
            ELSE ParseElements(s, i + 1, <<>>)
      [] Tok(s, i) = "Q" -> ScanString(s, i + 1, <<>>)
      [] Tok(s, i) \in {"5", "7"} -> Ok(i + 1, JNumber(Tok(s, i)))
      [] Tok(s, i) = "NaN" -> Ok(i + 1, JNaN)
      [] OTHER -> Fail

\* s[i] starts a member "key": value; a repeated key keeps the last value.
ParseMembers(s, i, m) ==
    IF Tok(s, i) # "Q" THEN Fail
    ELSE LET k == ScanString(s, i + 1, <<>>) IN
         IF ~k.ok \/ Tok(s, k.next) # ":" THEN Fail
         ELSE LET v == ParseValue(s, k.next + 1) IN
              IF ~v.ok THEN Fail
              ELSE LET m2 == (k.val.s :> v.val) @@ m IN
                   CASE Tok(s, v.next) = "," -> ParseMembers(s, v.next + 1, m2)
                     [] Tok(s, v.next) = "}" -> Ok(v.next + 1, JObj(m2))
                     [] OTHER -> Fail

\* s[i] starts an element; acc holds the elements before it.
ParseElements(s, i, acc) ==
    LET v == ParseValue(s, i) IN
    IF ~v.ok THEN Fail
    ELSE CASE Tok(s, v.next) = "," ->
                ParseElements(s, v.next + 1, Append(acc, v.val))
           [] Tok(s, v.next) = "]" -> Ok(v.next + 1, JList(Append(acc, v.val)))
           [] OTHER -> Fail

\* json.loads: one value, and nothing after it.
json_loads(s) ==
    LET r == ParseValue(s, 1) IN
    IF r.ok /\ r.next = Len(s) + 1 THEN r ELSE Fail

\* dict.get(key, default)
Get(m, key, default) == IF key \in DOMAIN m THEN m[key] ELSE default

(***************************************************************************)
(* The try block of the flush (main.py:558-564 and 592-598): the outcome   *)
(* is "ok", or the exception the block raises.                             *)
(***************************************************************************)
Outcome(res, canvas, explanation) ==
    [res |-> res, canvas |-> canvas, explanation |-> explanation]

ParseToolInput(buf) ==
    LET tool_input == json_loads(buf) IN
    IF ~tool_input.ok THEN Outcome("JSONDecodeError", <<>>, NoVal)
    ELSE IF tool_input.val.t # "obj" THEN Outcome("AttributeError", <<>>, NoVal)
    ELSE LET canvas_json == Get(tool_input.val.m, <<"canvas_json">>, JStr(<<>>))
             explanation == Get(tool_input.val.m, <<"explanation">>, JStr(<<>>))
         IN  IF canvas_json.t # "str" THEN Outcome("TypeError", <<>>, NoVal)
             ELSE IF ~json_loads(canvas_json.s).ok
                  THEN Outcome("JSONDecodeError", <<>>, NoVal)
                  ELSE Outcome("ok", canvas_json.s, explanation)

(***************************************************************************)
(* The upstream events of a turn (the inputs of the relay).                *)
(***************************************************************************)
\* {"canvas_json":"{\"nodes\":[]
FragOpen ==
    <<"{", "Q", "canvas_json", "Q", ":", "Q", "{", "EQ", "nodes", "EQ", ":", "[", "]">>
\* ,\"edges\":[]}","explanation":"cleared"}
FragClose ==
    <<",", "EQ", "edges", "EQ", ":", "[", "]", "}", "Q", ",",
      "Q", "explanation", "Q", ":", "Q", "cleared", "Q", "}">>
\* the same, truncated before its last brace
FragTruncated == SubSeq(FragClose, 1, Len(FragClose) - 1)
\* "}   closes the canvas_json string early: the canvas text is cut short
FragEndString == <<"Q", "}">>
\* []   a JSON array
FragArray == <<"[", "]">>
\* {"canvas_json":5}
FragNumber == <<"{", "Q", "canvas_json", "Q", ":", "5", "}">>
\* {"explanation":"cleared"}
FragNoCanvas == <<"{", "Q", "explanation", "Q", ":", "Q", "cleared", "Q", "}">>

Fragments ==
    {FragOpen, FragClose, FragTruncated, FragEndString, FragArray, FragNumber,
     FragNoCanvas}

Texts == {"a", "b"}

NoBlock == [type |-> "none", name |-> ""]
TextBlock == [type |-> "text", name |-> ""]
ToolBlock(name) == [type |-> "tool_use", name |-> name]
OtherBlock == [type |-> "other", name |-> ""]
ContentBlocks ==
    {TextBlock, ToolBlock("edit_canvas"), ToolBlock("other_tool"), OtherBlock}

TextDelta(t) == [kind |-> "text", text |-> t, partial_json |-> <<>>]
InputJsonDelta(f) == [kind |-> "partial_json", text |-> "", partial_json |-> f]
OtherDelta == [kind |-> "other", text |-> "", partial_json |-> <<>>]

\* The deltas the upstream sends for the block it has open.
DeltasOf(b) ==
    CASE b.type = "text" -> {TextDelta(t) : t \in Texts}
      [] b.type = "tool_use" -> {InputJsonDelta(f) : f \in Fragments}
      [] b.type = "other" ->
            {TextDelta(t) : t \in Texts}
                \cup {InputJsonDelta(f) : f \in Fragments} \cup {OtherDelta}
      [] OTHER -> {}

\* What the final-usage fetch of message_stop yields.
FinalUsage == {"usage", "unavailable", "fails"}

(***************************************************************************)
(* The outward events.  blk and at are history: the tool_use block the     *)
(* event belongs to (0: none) and the upstream event that produced it.     *)
(***************************************************************************)
Event(type, b, at) ==
    [type |-> type, tool_name |-> "", text |-> "", canvas |-> <<>>,
     explanation |-> NoVal, error |-> "", usage |-> "", blk |-> b, at |-> at]

ToolStart(name, b) ==
    [Event("tool_start", b, "content_block_start") EXCEPT !.tool_name = name]
TextDeltaEvent(t) ==
    [Event("text_delta", 0, "content_block_delta") EXCEPT !.text = t]
CanvasUpdate(r, b, at) ==
    [Event("canvas_update", b, at) EXCEPT !.canvas = r.canvas,
                                          !.explanation = r.explanation]
ToolFinish(b, at) ==
    [Event("tool_finish", b, at) EXCEPT !.tool_name = "edit_canvas"]
ErrorEvent(msg, b, at) == [Event("error", b, at) EXCEPT !.error = msg]
Done(u, at) == [Event("done", 0, at) EXCEPT !.usage = u]

\* main.py:463-467: the whole response body when no client is configured
NotConfiguredEvents ==
    <<ErrorEvent("Anthropic API key not configured", 0, "stream_chat")>>

\* One call to a collaborator; state is "pending" while it is awaited.
Call(name, state) == [name |-> name, state |-> state, args |-> <<>>]

\* main.py:108-111: the username of the chat request and of the upload
Username == "testuser"

\* final_msg.usage of the model, and the empty dict
FinalMessageUsage == [input_tokens |-> 5, output_tokens |-> 7]
EmptyUsage == <<>>

\* main.py:48-56, in millionths of a dollar
calculate_claude_cost(input_tokens, output_tokens) ==
    input_tokens * 1 + output_tokens * 5

\* A report that counts the input tokens only.
track_token_usage_input_only(username, input_tokens, output_tokens) ==
    [username |-> username, tokens |-> input_tokens,
     cost |-> calculate_claude_cost(input_tokens, output_tokens)]

\* main.py:58-70: the body of the post to /api/user/track-tokens
track_token_usage(username, input_tokens, output_tokens) ==
    [username |-> username, tokens |-> input_tokens + output_tokens,
     cost |-> calculate_claude_cost(input_tokens, output_tokens)]

\* main.py:284, 627-631: the awaited call of track_token_usage
TrackCall(username, usage) ==
    [Call("track_token_usage", "pending") EXCEPT
        !.args = track_token_usage(username, usage.input_tokens,
                                   usage.output_tokens)]

\* main.py:66-72: the post to the accounting store goes through or raises.
TrackOutcomes == {"posted", "raised"}

(***************************************************************************)
(* POST /api/process-file: the request and the answer.  The uploaded file  *)
(* is what its bytes hold: a CSV table, an Excel workbook (one row count   *)
(* per sheet), or bytes no reader accepts.                                 *)
(***************************************************************************)
Content(format, sheets) == [format |-> format, sheets |-> sheets]
Request(fileType, fileBuffer, content) ==
    [fileType |-> fileType, fileBuffer |-> fileBuffer, content |-> content]

\* main.py:97-101, 310-314: file_schema NoVal and subsets <<>> stand for None,
\* error "None" for no error.
Success(schema, subsets) ==
    [status |-> 200, success |-> TRUE, file_schema |-> schema,
     subsets |-> subsets, error |-> "None"]

\* A handler that answers a failure without its message.
FailureWithoutError(msg) ==
    [status |-> 200, success |-> FALSE, file_schema |-> NoVal,
     subsets |-> <<>>, error |-> "None"]

\* main.py:346-350: the except of process_file returns a normal answer.
Failure(msg) ==
    [status |-> 200, success |-> FALSE, file_schema |-> NoVal,
     subsets |-> <<>>, error |-> msg]

\* process_file before a request arrives
NoRequest == Request("", "", Content("", <<>>))
NoResponse ==
    [status |-> 0, success |-> FALSE, file_schema |-> NoVal, subsets |-> <<>>,
     error |-> "None"]

(***************************************************************************)
(* stream_ai_response, one action per upstream event.                      *)
(***************************************************************************)
\* main.py:474, 523-524: the locals and the response body of a turn whose
\* request is not yet handled
NewTurn ==
    [current_tool_use |-> "None", tool_input_buffer |-> <<>>, out |-> <<>>,
     pc |-> "request", ublock |-> NoBlock, blk |-> 0,
     last |-> [ev |-> "none", block |-> NoBlock, delta |-> OtherDelta,
               cur |-> "None", buf |-> <<>>, nout |-> 0, track |-> "none"],
     nevents |-> 0, nfrags |-> 0, received |-> <<>>, peer |-> 0]

\* build_system_prompt not yet called
NoPrompt ==
    [current_canvas |-> <<>>, data_sources |-> <<>>, include_raw |-> FALSE,
     raised |-> FALSE, node_count |-> 0, edge_count |-> 0,
     full_raw_data |-> <<>>, raw_section |-> "", decoded |-> {}]

\* no request answered yet
NoBody == [status |-> "", anthropic_configured |-> FALSE, detail |-> ""]
NoAnswer ==
    [method |-> "", path |-> "", request |-> NoVal, status |-> 0,
     body |-> NoBody]

Init ==
    /\ current_tool_use = "None"
    /\ tool_input_buffer = <<>>
    /\ out = <<>>
    /\ pc = "request"
    /\ ublock = NoBlock
    /\ blk = 0
    /\ last = [ev |-> "none", block |-> NoBlock, delta |-> OtherDelta,
               cur |-> "None", buf |-> <<>>, nout |-> 0, track |-> "none"]
    /\ nevents = 0
    /\ nfrags = 0
    /\ received = <<>>
    /\ ANTHROPIC_API_KEY \in {"", "sk-ant-key"}
    /\ calls = <<>>
    /\ fpc = "idle"
    /\ file_request = NoRequest
    /\ response_text = <<>>
    /\ file_response = NoResponse
    /\ suspended = NewTurn
    /\ system_prompt = NoPrompt
    /\ service_response = NoAnswer

\* A relay that starts the turn whether or not a client is configured.
AlwaysConfigured(client) == TRUE

\* main.py:463 (and 137): "if not anthropic_client"
Configured(client) == client # "None"

\* main.py:449-472: POST /api/chat/stream.  With a client the response body is
\* stream_ai_response, which builds the prompt and opens the model stream
\* (main.py:488, 513); without one it is a single error line.
StreamChat ==
    /\ pc = "request"
    /\ IF Configured(anthropic_client)
       THEN /\ pc' = "streaming"
            /\ out' = out
            /\ calls' = calls \o <<Call("build_system_prompt", "returned"),
                                    Call("messages.stream", "open")>>
       ELSE /\ pc' = "ended"
            /\ out' = out \o NotConfiguredEvents
            /\ calls' = calls
    /\ last' = [last EXCEPT !.ev = "request", !.nout = Len(out)]
    /\ UNCHANGED <<current_tool_use, tool_input_buffer, ublock, blk, nevents,
                   nfrags, received, ANTHROPIC_API_KEY, file_vars,
                   other_vars>>

\* The loop takes the next upstream event.
Consume(ev, d) ==
    /\ pc = "streaming"
    /\ nevents < MaxEvents
    /\ nevents' = nevents + 1
    /\ last' = [ev |-> ev, block |-> ublock, delta |-> d,
                cur |-> current_tool_use, buf |-> tool_input_buffer,
                nout |-> Len(out), track |-> "none"]
    /\ UNCHANGED <<ANTHROPIC_API_KEY, file_vars,
                   other_vars>>

\* main.py:556: is there a tool call to flush at content_block_stop?
StopShouldFlush(cur, buf) == cur = "edit_canvas" /\ buf # <<>>

\* A relay that lacks the flush of message_stop.
MessageStopNeverFlushes(cur, buf) == FALSE

\* main.py:590: is there a tool call left to flush at message_stop?
MessageStopShouldFlush(cur, buf) == cur = "edit_canvas" /\ buf # <<>>

\* A relay that leaves the accumulator as it is after the flush.
AfterFlushKeeps(cur, buf) == [cur |-> cur, buf |-> buf]

\* main.py:583-584: the accumulator after the flush of content_block_stop
AfterFlush(cur, buf) == [cur |-> "None", buf |-> <<>>]

\* A relay that ends the spinner after a failed parse as well.
FlushEventsFinishOnError(r, b, at) ==
    IF r.res = "ok"
    THEN <<CanvasUpdate(r, b, at), ToolFinish(b, at)>>
    ELSE <<ErrorEvent("Invalid canvas JSON", b, at), ToolFinish(b, at)>>

\* A relay that yields tool_finish before canvas_update.
FlushEventsSwapped(r, b, at) ==
    IF r.res = "ok"
    THEN <<ToolFinish(b, at), CanvasUpdate(r, b, at)>>
    ELSE <<ErrorEvent("Invalid canvas JSON", b, at)>>

\* main.py:566-581 and 600-615: what the flush yields for a parse outcome
\* that the inner try handles.
FlushEvents(r, b, at) ==
    IF r.res = "ok"
    THEN <<CanvasUpdate(r, b, at), ToolFinish(b, at)>>
    ELSE <<ErrorEvent("Invalid canvas JSON", b, at)>>

\* main.py:577 and 611: the inner try catches json.JSONDecodeError only.
Caught(r) == r.res \in {"ok", "JSONDecodeError"}

\* A relay that closes the stream with a done after the error.
ExceptEventsThenDone(b, at) == <<ErrorEvent("str(e)", b, at), Done(EmptyUsage, at)>>

\* main.py:638-642: any other exception ends the generator with one error.
ExceptEvents(b, at) == <<ErrorEvent("str(e)", b, at)>>

\* main.py:529-541
StartEvents(cb, b) ==
    IF cb.type = "tool_use" THEN <<ToolStart(cb.name, b)>> ELSE <<>>

\* A relay that keeps what it has buffered when a tool_use block starts.
ContentBlockStartKeepsBuffer(cb) ==
    /\ Consume("content_block_start", OtherDelta)
    /\ ublock' = cb
    /\ IF cb.type = "tool_use"
       THEN /\ current_tool_use' = cb.name
            /\ tool_input_buffer' = tool_input_buffer
            /\ blk' = blk + 1
       ELSE UNCHANGED <<current_tool_use, tool_input_buffer, blk>>
    /\ out' = out \o StartEvents(cb, blk + 1)
    /\ UNCHANGED <<pc, nfrags, received, calls>>

ContentBlockStart(cb) ==
    /\ Consume("content_block_start", OtherDelta)
    /\ ublock' = cb
    /\ IF cb.type = "tool_use"
       THEN /\ current_tool_use' = cb.name
            /\ tool_input_buffer' = <<>>
            /\ blk' = blk + 1
       ELSE UNCHANGED <<current_tool_use, tool_input_buffer, blk>>
    /\ out' = out \o StartEvents(cb, blk + 1)
    /\ UNCHANGED <<pc, nfrags, received, calls>>

\* A relay that forwards a text fragment only if it differs from the one
\* forwarded last.
DeltaEventsDedup(d) ==
    IF d.kind = "text" /\ (out = <<>> \/ out[Len(out)].text # d.text)
    THEN <<TextDeltaEvent(d.text)>> ELSE <<>>

\* main.py:543-549
DeltaEvents(d) ==
    IF d.kind = "text" THEN <<TextDeltaEvent(d.text)>> ELSE <<>>

\* A relay that buffers the text fragments as well.
DeltaBufferTakesText(buf, d) ==
    CASE d.kind = "partial_json" -> buf \o d.partial_json
      [] d.kind = "text" -> Append(buf, d.text)
      [] OTHER -> buf

\* A relay that puts each fragment in front of those it holds.
DeltaBufferPrepend(buf, d) ==
    IF d.kind = "partial_json" THEN d.partial_json \o buf ELSE buf

\* main.py:551-553
DeltaBuffer(buf, d) ==
    IF d.kind = "partial_json" THEN buf \o d.partial_json ELSE buf

ContentBlockDelta(d) ==
    /\ d \in DeltasOf(ublock)
    /\ d.kind = "partial_json" => nfrags < MaxFrags
    /\ d.kind = "text" => Len(received) < MaxTexts
    /\ Consume("content_block_delta", d)
    /\ out' = out \o DeltaEvents(d)
    /\ tool_input_buffer' = DeltaBuffer(tool_input_buffer, d)
    /\ nfrags' = IF d.kind = "partial_json" THEN nfrags + 1 ELSE nfrags
    /\ received' = IF d.kind = "text" THEN Append(received, d.text) ELSE received
    /\ UNCHANGED <<current_tool_use, pc, ublock, blk, calls>>

\* main.py:555-586
ContentBlockStop ==
    /\ ublock # NoBlock
    /\ Consume("content_block_stop", OtherDelta)
    /\ ublock' = NoBlock
    /\ IF StopShouldFlush(current_tool_use, tool_input_buffer)
       THEN LET r == ParseToolInput(tool_input_buffer) IN
            IF Caught(r)
            THEN /\ out' = out \o FlushEvents(r, blk, "content_block_stop")
                 /\ current_tool_use' =
                        AfterFlush(current_tool_use, tool_input_buffer).cur
                 /\ tool_input_buffer' =
                        AfterFlush(current_tool_use, tool_input_buffer).buf
                 /\ pc' = pc
            ELSE /\ out' = out \o ExceptEvents(blk, "content_block_stop")
                 /\ pc' = "failed"
                 /\ UNCHANGED <<current_tool_use, tool_input_buffer>>
       ELSE UNCHANGED <<out, current_tool_use, tool_input_buffer, pc>>
    /\ UNCHANGED <<blk, nfrags, received, calls>>

\* main.py:618-636: the usage record of done
UsageOf(final) == IF final = "usage" THEN FinalMessageUsage ELSE EmptyUsage

\* main.py:588-636, up to the done of line 633 or, when the final message
\* carries a usage, up to the awaited track_token_usage of line 627.
MessageStop(final) ==
    LET flush == MessageStopShouldFlush(current_tool_use, tool_input_buffer)
        r == ParseToolInput(tool_input_buffer)
        flushed == IF flush THEN FlushEvents(r, blk, "message_stop") ELSE <<>>
        raised == flush /\ ~Caught(r)
        tracked == ~raised /\ final = "usage"
    IN  /\ Consume(IF tracked THEN "message_stop, awaiting track_token_usage"
                              ELSE "message_stop", OtherDelta)
        /\ IF raised
           THEN /\ out' = out \o ExceptEvents(blk, "message_stop")
                /\ pc' = "failed"
                /\ calls' = calls
           ELSE IF final = "fails"
           THEN /\ out' = out \o flushed \o ExceptEvents(0, "message_stop")
                /\ pc' = "failed"
                /\ calls' = calls
           ELSE IF tracked
           THEN /\ out' = out \o flushed
                /\ pc' = "tracking"
                /\ calls' = Append(calls, TrackCall(Username, FinalMessageUsage))
           ELSE /\ out' = out \o flushed \o <<Done(UsageOf(final), "message_stop")>>
                /\ pc' = pc
                /\ calls' = calls
        /\ UNCHANGED <<current_tool_use, tool_input_buffer, ublock, blk, nfrags,
                       received>>

\* A relay in which a failed accounting post ends the turn with an error.
TrackTokenUsageSurfaces(result) ==
    /\ pc = "tracking"
    /\ calls' = [calls EXCEPT ![Len(calls)].state = "returned"]
    /\ IF result = "raised"
       THEN /\ out' = out \o ExceptEvents(0, "message_stop")
            /\ pc' = "failed"
       ELSE /\ out' = Append(out, Done(UsageOf("usage"), "message_stop"))
            /\ pc' = "streaming"
    /\ last' = [last EXCEPT !.ev = "message_stop", !.track = result]
    /\ UNCHANGED <<current_tool_use, tool_input_buffer, ublock, blk, nevents,
                   nfrags, received, ANTHROPIC_API_KEY, file_vars, other_vars>>

\* main.py:58-72, 627-636: the awaited track_token_usage returns, whether the
\* post went through or raised (the except of line 71 swallows it), and the
\* relay yields done.
TrackTokenUsage(result) ==
    /\ pc = "tracking"
    /\ pc' = "streaming"
    /\ calls' = [calls EXCEPT ![Len(calls)].state = "returned"]
    /\ out' = Append(out, Done(UsageOf("usage"), "message_stop"))
    /\ last' = [last EXCEPT !.ev = "message_stop", !.track = result]
    /\ UNCHANGED <<current_tool_use, tool_input_buffer, ublock, blk, nevents,
                   nfrags, received, ANTHROPIC_API_KEY, file_vars,
                   other_vars>>

\* A relay that treats an upstream event of unknown type as a failure.
OtherEventRaises ==
    /\ Consume("other", OtherDelta)
    /\ out' = out \o ExceptEvents(0, "other")
    /\ pc' = "failed"
    /\ UNCHANGED <<current_tool_use, tool_input_buffer, ublock, blk,
                   nfrags, received, calls>>

\* main.py:526-636: an event of any other type matches no branch.
OtherEvent ==
    /\ Consume("other", OtherDelta)
    /\ UNCHANGED <<current_tool_use, tool_input_buffer, out, pc, ublock, blk,
                   nfrags, received, calls>>

\* main.py:526: the upstream stream is exhausted and the generator returns.
StreamEnd ==
    /\ pc = "streaming"
    /\ pc' = "ended"
    /\ last' = [last EXCEPT !.ev = "end", !.nout = Len(out)]
    /\ UNCHANGED <<current_tool_use, tool_input_buffer, out, ublock, blk,
                   nevents, nfrags, received, ANTHROPIC_API_KEY, calls,
                   file_vars, other_vars>>

\* main.py:526, 638-642: awaiting the next upstream event raises.
StreamError ==
    /\ pc = "streaming"
    /\ pc' = "failed"
    /\ out' = out \o ExceptEvents(0, "exception")
    /\ last' = [last EXCEPT !.ev = "exception", !.nout = Len(out)]
    /\ UNCHANGED <<current_tool_use, tool_input_buffer, ublock, blk,
                   nevents, nfrags, received, ANTHROPIC_API_KEY, calls,
                   file_vars, other_vars>>

Next ==
    \/ StreamChat
    \/ \E cb \in ContentBlocks : ContentBlockStart(cb)
    \/ \E d \in DeltasOf(ublock) : ContentBlockDelta(d)
    \/ ContentBlockStop
    \/ \E final \in FinalUsage : MessageStop(final)
    \/ \E result \in TrackOutcomes : TrackTokenUsage(result)
    \/ OtherEvent
    \/ StreamEnd
    \/ StreamError

Spec == Init /\ [][Next]_vars

(***************************************************************************)
(* POST /api/process-file (main.py:326-404): the uploaded files.           *)
(***************************************************************************)
relay_vars ==
    <<current_tool_use, tool_input_buffer, out, pc, ublock, blk, last,
      nevents, nfrags, received>>

FileTypes ==
    {"text/csv", "data.CSV", "application/vnd.ms-excel", "book.xlsx",
     "application/pdf"}

\* main.py:338: fileType.lower() ends with .csv or contains csv
IsCsv(fileType) == fileType \in {"text/csv", "data.CSV"}

\* main.py:340: it ends with .xlsx or .xls, or contains spreadsheet or excel
IsExcel(fileType) == fileType \in {"application/vnd.ms-excel", "book.xlsx"}

\* the number of data rows of a table or of a sheet
SheetRows == {0, 5}

Workbooks == UNION {[1..n -> SheetRows] : n \in 0..MaxSheets}

Contents ==
    {Content("garbage", <<>>)}
        \cup {Content("csv", <<n>>) : n \in SheetRows}
        \cup {Content("excel", w) : w \in Workbooks}

\* fileBuffer is the base64 text of the content, or no base64 text at all.
Requests ==
    {Request(t, "base64", c) : t \in FileTypes, c \in Contents}
        \cup {Request(t, "not base64", Content("garbage", <<>>)) : t \in FileTypes}

\* What the code before the model call comes to: an exception, or the
\* dataframe handed on (rows: its number of rows).
Raise(msg, http) == [res |-> "raise", rows |-> 0, error |-> msg, http |-> http]
DataFrame(rows) == [res |-> "ok", rows |-> rows, error |-> "None", http |-> 0]

RECURSIVE Sum(_)
Sum(seq) == IF seq = <<>> THEN 0 ELSE Head(seq) + Sum(Tail(seq))

\* A reader for which no dataframe is empty.
NeverEmpty(df) == FALSE

\* main.py:361, 397: df.empty
IsEmpty(df) == df.rows = 0

\* main.py:352-369, up to the call of generate_subsets_with_claude
process_csv_file(content) ==
    IF content.format # "csv" THEN Raise("ParserError", 0)
    ELSE LET df == DataFrame(content.sheets[1]) IN
         IF IsEmpty(df) THEN Raise("CSV file is empty", 0) ELSE df

\* main.py:371-404, up to the call of generate_subsets_with_claude: several
\* sheets are concatenated vertically.
process_excel_file(content) ==
    IF content.format # "excel" THEN Raise("BadZipFile", 0)
    ELSE IF content.sheets = <<>> THEN Raise("Excel file contains no sheets", 0)
    ELSE LET df == DataFrame(Sum(content.sheets)) IN
         IF IsEmpty(df) THEN Raise("Excel sheet is empty", 0) ELSE df

\* main.py:333-342, 137-138: process_file up to the model call
Prepare(req, client) ==
    IF req.fileBuffer # "base64" THEN Raise("Incorrect padding", 0)
    ELSE LET df == IF IsCsv(req.fileType) THEN process_csv_file(req.content)
                   ELSE IF IsExcel(req.fileType)
                        THEN process_excel_file(req.content)
                        ELSE Raise("400: Unsupported file type", 400)
         IN  IF df.res = "raise" THEN df
             ELSE IF ~Configured(client)
                  THEN Raise("Anthropic API key not configured", 0)
                  ELSE df

(***************************************************************************)
(* generate_subsets_with_claude (main.py:286-314): from the response text  *)
(* to the answer.  Besides the JSON tokens a response text may hold the    *)
(* fence FENCE (three backquotes), the word json and runs of whitespace,   *)
(* WS.                                                                     *)
(***************************************************************************)
RECURSIVE LStrip(_)
LStrip(t) == IF t # <<>> /\ Head(t) = "WS" THEN LStrip(Tail(t)) ELSE t

RECURSIVE RStrip(_)
RStrip(t) ==
    IF t # <<>> /\ t[Len(t)] = "WS" THEN RStrip(SubSeq(t, 1, Len(t) - 1)) ELSE t

\* str.strip()
Strip(t) == RStrip(LStrip(t))

\* A stripping that leaves the closing fence in place.
StripFencesKeepsClosing(text) ==
    LET a == Strip(text)
        b == IF Len(a) >= 2 /\ a[1] = "FENCE" /\ a[2] = "json"
             THEN SubSeq(a, 3, Len(a)) ELSE a
        c == IF b # <<>> /\ b[1] = "FENCE" THEN Tail(b) ELSE b
    IN  Strip(c)

\* main.py:287-294
StripFences(text) ==
    LET a == Strip(text)
        b == IF Len(a) >= 2 /\ a[1] = "FENCE" /\ a[2] = "json"
             THEN SubSeq(a, 3, Len(a)) ELSE a
        c == IF b # <<>> /\ b[1] = "FENCE" THEN Tail(b) ELSE b
        d == IF c # <<>> /\ c[Len(c)] = "FENCE"
             THEN SubSeq(c, 1, Len(c) - 1) ELSE c
    IN  Strip(d)

\* main.py:300: key in result, for a dict, a list and a str
HasKey(v, key) ==
    CASE v.t = "obj" -> <<key>> \in DOMAIN v.m
      [] v.t = "arr" -> \E i \in DOMAIN v.m : v.m[i] = JStr(<<key>>)
      [] v.t = "str" -> \E i \in DOMAIN v.s : v.s[i] = key
      [] OTHER -> FALSE

\* A validation that lets any subsets value through.
AnySubsets(v) == FALSE

\* main.py:303: not isinstance(subsets, list) or len(subsets) == 0
NoSubsets(v) == v.t # "arr" \/ Len(v.m) = 0

\* main.py:86-89, 307: FileSchema(**file_schema) validates: the three fields
\* are there, columns is a list of dicts of strings, rowCount is an integer
\* and summary a string.
ValidFileSchema(v) ==
    /\ v.t = "obj"
    /\ \A k \in {"columns", "rowCount", "summary"} : <<k>> \in DOMAIN v.m
    /\ LET columns == v.m[<<"columns">>] IN
           /\ columns.t = "arr"
           /\ \A i \in DOMAIN columns.m :
                  /\ columns.m[i].t = "obj"
                  /\ \A k \in DOMAIN columns.m[i].m : columns.m[i].m[k].t = "str"
    /\ v.m[<<"rowCount">>].t = "num"
    /\ v.m[<<"summary">>].t = "str"

SubsetStrings ==
    {"description", "xAxisName", "xAxisDescription", "yAxisName",
     "yAxisDescription"}

\* main.py:78-84, 308: DataSubset(**subset) validates: the five strings are
\* there and dataPoints is a list of dicts, of any length and any values.
ValidDataSubset(v) ==
    /\ v.t = "obj"
    /\ \A k \in SubsetStrings : <<k>> \in DOMAIN v.m /\ v.m[<<k>>].t = "str"
    /\ <<"dataPoints">> \in DOMAIN v.m
    /\ LET dataPoints == v.m[<<"dataPoints">>] IN
           /\ dataPoints.t = "arr"
           /\ \A i \in DOMAIN dataPoints.m : dataPoints.m[i].t = "obj"

\* main.py:286-320, 346-350: the answer for a response text
ParseResponse(text) ==
    LET parsed == json_loads(StripFences(text))
        result == parsed.val
    IN  IF ~parsed.ok THEN Failure("Claude returned invalid JSON")
        ELSE IF result.t \in {"num", "nan"}
        THEN Failure("argument of type is not iterable")
        ELSE IF ~HasKey(result, "file_schema") \/ ~HasKey(result, "subsets")
        THEN Failure("Invalid response structure from Claude")
        ELSE IF result.t # "obj" THEN Failure("indices must be integers")
        ELSE LET schema == result.m[<<"file_schema">>]
                 subsets == result.m[<<"subsets">>]
             IN  IF NoSubsets(subsets)
                 THEN Failure("No subsets generated by Claude")
                 ELSE IF ~ValidFileSchema(schema)
                         \/ \E i \in DOMAIN subsets.m : ~ValidDataSubset(subsets.m[i])
                 THEN Failure("validation error")
                 ELSE Success(schema, subsets.m)

(***************************************************************************)
(* The response texts of the model (the inputs of the analysis), written   *)
(* after the OUTPUT FORMAT of the prompt (main.py:230-249).                *)
(***************************************************************************)
RECURSIVE Join(_)
Join(parts) ==
    IF parts = <<>> THEN <<>>
    ELSE IF Len(parts) = 1 THEN parts[1]
    ELSE parts[1] \o <<",">> \o Join(Tail(parts))

Lit(word) == <<"Q", word, "Q">>
EmptyLit == <<"Q", "Q">>
Member(key, value) == Lit(key) \o <<":">> \o value
Object(members) == <<"{">> \o Join(members) \o <<"}">>
Array(elems) == <<"[">> \o Join(elems) \o <<"]">>

ColumnText(name) ==
    Object(<<Member("name", name), Member("type", Lit("number")),
             Member("description", Lit("text"))>>)

SchemaText(columns, rowCount) ==
    Object(<<Member("columns", Array(columns)), Member("rowCount", rowCount),
             Member("summary", Lit("text"))>>)

PointText(y) == Object(<<Member("x", Lit("jan")), Member("y", y)>>)

SubsetText(points) ==
    Object(<<Member("description", Lit("text")),
             Member("xAxisName", Lit("month")),
             Member("xAxisDescription", Lit("text")),
             Member("yAxisName", Lit("sales")),
             Member("yAxisDescription", Lit("text")),
             Member("dataPoints", points)>>)

ResponseText(schema, subsets) ==
    Object(<<Member("file_schema", schema), Member("subsets", subsets)>>)

GoodSchema == SchemaText(<<ColumnText(Lit("month")), ColumnText(Lit("sales"))>>, <<"5">>)
GoodSubsets == Array(<<SubsetText(Array(<<PointText(<<"5">>), PointText(<<"7">>)>>))>>)
GoodResponse == ResponseText(GoodSchema, GoodSubsets)

ResponseTexts ==
    { GoodResponse,
      \* in a json fence, in a plain fence, and between whitespace
      <<"FENCE", "json", "WS">> \o GoodResponse \o <<"WS", "FENCE">>,
      <<"WS", "FENCE", "WS">> \o GoodResponse \o <<"WS", "FENCE", "WS">>,
      <<"WS">> \o GoodResponse \o <<"WS">>,
      \* cut short, and prose instead of JSON
      SubSeq(GoodResponse, 1, Len(GoodResponse) - 1),
      <<"Here", "WS", "is", "WS", "the", "WS", "analysis">>,
      \* valid JSON of another shape
      <<"5">>,
      Array(<<Lit("file_schema"), Lit("subsets")>>),
      Object(<<Member("subsets", GoodSubsets)>>),
      Object(<<Member("file_schema", GoodSchema)>>),
      ResponseText(GoodSchema, Array(<<>>)),
      ResponseText(GoodSchema, SubsetText(Array(<<PointText(<<"5">>)>>))),
      ResponseText(Array(<<>>), GoodSubsets),
      ResponseText(GoodSchema, Array(<<Object(<<Member("description", Lit("text"))>>)>>)),
      \* a schema that contradicts the dataset
      ResponseText(SchemaText(<<ColumnText(Lit("month"))>>, <<"7">>), GoodSubsets),
      ResponseText(SchemaText(<<ColumnText(Lit("month")), ColumnText(Lit("month"))>>,
                              <<"5">>), GoodSubsets),
      ResponseText(SchemaText(<<ColumnText(EmptyLit)>>, <<"5">>), GoodSubsets),
      \* subsets that cannot be drawn
      ResponseText(GoodSchema, Array(<<SubsetText(Array(<<>>))>>)),
      ResponseText(GoodSchema, Array(<<SubsetText(Array(<<PointText(Lit("high"))>>))>>)),
      ResponseText(GoodSchema, Array(<<SubsetText(Array(<<PointText(<<"NaN">>)>>))>>)) }

(***************************************************************************)
(* process_file, one action per await.                                     *)
(***************************************************************************)
\* main.py:326-350, 352-404, 130-138, 266: the request is decoded and read;
\* it is answered at once when that raises, and the model is called
\* otherwise.
ProcessFile(req) ==
    /\ fpc = "idle"
    /\ file_request' = req
    /\ LET df == Prepare(req, anthropic_client) IN
       IF df.res = "raise"
       THEN /\ fpc' = "responded"
            /\ file_response' = Failure(df.error)
            /\ calls' = calls
       ELSE /\ fpc' = "calling"
            /\ file_response' = file_response
            /\ calls' = Append(calls, Call("messages.stream", "open"))
    /\ UNCHANGED <<response_text, ANTHROPIC_API_KEY, relay_vars,
                   other_vars>>

\* An analysis that goes on to parse the text without a usage report.
StreamTextWithoutReport(text) ==
    /\ fpc = "calling"
    /\ fpc' = "tracking"
    /\ response_text' = text
    /\ calls' = [calls EXCEPT ![Len(calls)].state = "returned"]
    /\ UNCHANGED <<file_request, file_response, ANTHROPIC_API_KEY, relay_vars,
                   other_vars>>

\* main.py:266-284: the model stream delivers the text and the final
\* message, and track_token_usage is awaited.
StreamText(text) ==
    /\ fpc = "calling"
    /\ fpc' = "tracking"
    /\ response_text' = text
    /\ calls' = Append([calls EXCEPT ![Len(calls)].state = "returned"],
                       TrackCall(Username, FinalMessageUsage))
    /\ UNCHANGED <<file_request, file_response, ANTHROPIC_API_KEY, relay_vars,
                   other_vars>>

\* An analysis that calls the model again when the call raised.
StreamRaisesAndRetries ==
    /\ fpc = "calling"
    /\ fpc' = "calling"
    /\ calls' = Append([calls EXCEPT ![Len(calls)].state = "raised"],
                       Call("messages.stream", "open"))
    /\ UNCHANGED <<file_request, response_text, file_response,
                   ANTHROPIC_API_KEY, relay_vars, other_vars>>

\* main.py:266-281, 319-320, 346-350: the model call raises.
StreamRaises ==
    /\ fpc = "calling"
    /\ fpc' = "responded"
    /\ file_response' = Failure("str(e)")
    /\ calls' = [calls EXCEPT ![Len(calls)].state = "raised"]
    /\ UNCHANGED <<file_request, response_text, ANTHROPIC_API_KEY, relay_vars,
                   other_vars>>

\* main.py:58-72, 284-320, 346-350: track_token_usage returns, whether the
\* post went through or raised, then the text is parsed and answered.
GenerateSubsets(result) ==
    /\ fpc = "tracking"
    /\ fpc' = "responded"
    /\ calls' = [calls EXCEPT ![Len(calls)].state = result]
    /\ file_response' = ParseResponse(response_text)
    /\ UNCHANGED <<file_request, response_text, ANTHROPIC_API_KEY, relay_vars,
                   other_vars>>

FileNext ==
    \/ \E req \in Requests : ProcessFile(req)
    \/ \E text \in ResponseTexts : StreamText(text)
    \/ StreamRaises
    \/ \E result \in TrackOutcomes : GenerateSubsets(result)

FileSpec == Init /\ [][FileNext]_vars

(***************************************************************************)
(* The service handling one request, a chat turn or a file analysis.       *)
(***************************************************************************)
OneRequestNext ==
    \/ fpc = "idle" /\ Next
    \/ pc = "request" /\ FileNext

OneRequestSpec == Init /\ [][OneRequestNext]_vars

(***************************************************************************)
(* build_system_prompt (main.py:644-1258).  The prompt is kept as the      *)
(* values the template interpolates: the two counts, the entries of        *)
(* full_raw_data and the text of the raw-data section.                     *)
(***************************************************************************)

\* the current_canvas texts of a request
CanvasTexts ==
    { Object(<<Member("nodes", Array(<<Object(<<>>), Object(<<>>)>>)),
               Member("edges", Array(<<Object(<<>>)>>))>>),
      Object(<<>>),
      \* not JSON
      <<>>,
      <<"not", "json">>,
      <<"{", "Q", "nodes", "Q", ":", "[">>,
      \* JSON, but not an object
      Array(<<>>),
      <<"5">>,
      Lit("nodes"),
      \* an object whose nodes or edges have no length
      Object(<<Member("nodes", <<"5">>), Member("edges", Array(<<>>))>>),
      Object(<<Member("nodes", Array(<<Object(<<>>)>>)), Member("edges", <<"NaN">>)>>) }

\* One data source: its rawFileData (NoRequest: none) and whether its
\* fileSchema is a dict ("dict") or null ("None").
DataSource(rawFileData, fileSchema) ==
    [rawFileData |-> rawFileData, fileSchema |-> fileSchema]

RawFiles ==
    { NoRequest,
      Request("text/csv", "", Content("", <<>>)),
      Request("text/csv", "not base64", Content("garbage", <<>>)),
      Request("text/csv", "base64", Content("garbage", <<>>)),
      Request("text/csv", "base64", Content("csv", <<5>>)),
      Request("book.xlsx", "base64", Content("excel", <<5, 0>>)),
      Request("application/pdf", "base64", Content("csv", <<5>>)) }

DataSources ==
    {DataSource(raw, "dict") : raw \in RawFiles}
        \cup {DataSource(NoRequest, "None")}

DataSourceLists == UNION {[1..n -> DataSources] : n \in 0..MaxSources}

\* len() of a parsed JSON value; numbers have none (TypeError)
HasLen(v) == v.t \in {"arr", "obj", "str"}
LenOf(v) ==
    CASE v.t = "arr" -> Len(v.m)
      [] v.t = "str" -> Len(v.s)
      [] OTHER -> Cardinality(DOMAIN v.m)

Counts(nodes, edges, raised) ==
    [node_count |-> nodes, edge_count |-> edges, raised |-> raised]

\* A builder without the try around the parse of the canvas.
CanvasCountsUnguarded(current_canvas) ==
    LET p == json_loads(current_canvas) IN
    IF ~p.ok \/ p.val.t # "obj" THEN Counts(0, 0, TRUE)
    ELSE LET nodes == Get(p.val.m, <<"nodes">>, JArr)
             edges == Get(p.val.m, <<"edges">>, JArr)
         IN  IF ~HasLen(nodes) \/ ~HasLen(edges) THEN Counts(0, 0, TRUE)
             ELSE Counts(LenOf(nodes), LenOf(edges), FALSE)

\* main.py:650-656: any exception of the three lines is caught and gives 0
\* and 0.
CanvasCounts(current_canvas) ==
    LET p == json_loads(current_canvas) IN
    IF ~p.ok \/ p.val.t # "obj" THEN Counts(0, 0, FALSE)
    ELSE LET nodes == Get(p.val.m, <<"nodes">>, JArr)
             edges == Get(p.val.m, <<"edges">>, JArr)
         IN  IF ~HasLen(nodes) \/ ~HasLen(edges) THEN Counts(0, 0, FALSE)
             ELSE Counts(LenOf(nodes), LenOf(edges), FALSE)

\* main.py:661-662: schema.get raises when fileSchema is null.
SummaryRaises(data_sources) ==
    \E i \in DOMAIN data_sources : data_sources[i].fileSchema = "None"

\* A builder that includes the raw data whatever the toggle says.
AlwaysIncludeRaw(toggle) == TRUE

\* main.py:673: if INCLUDE_RAW_FILE_DATA
IncludeRaw(toggle) == toggle

RawEntry(kind, rows) == [kind |-> kind, rows |-> rows]

\* main.py:675-715: the entries one data source adds to full_raw_data.  The
\* names of the files carry no extension, so the reader is selected by
\* fileType alone.
RawData(ds) ==
    LET raw == ds.rawFileData IN
    IF raw = NoRequest \/ raw.fileBuffer = "" THEN <<>>
    ELSE IF raw.fileBuffer # "base64" THEN <<RawEntry("error", 0)>>
    ELSE <<RawEntry("header", 0)>> \o
         (IF IsCsv(raw.fileType)
          THEN IF raw.content.format = "csv"
               THEN <<RawEntry("rows", raw.content.sheets[1])>>
               ELSE <<RawEntry("error", 0)>>
          ELSE IF IsExcel(raw.fileType)
          THEN IF raw.content.format = "excel"
               THEN [i \in DOMAIN raw.content.sheets |->
                        RawEntry("rows", raw.content.sheets[i])]
               ELSE <<RawEntry("error", 0)>>
          ELSE <<>>)

RECURSIVE FullRawData(_)
FullRawData(data_sources) ==
    IF data_sources = <<>> THEN <<>>
    ELSE RawData(Head(data_sources)) \o FullRawData(Tail(data_sources))

\* main.py:685: the data sources whose fileBuffer is handed to b64decode
Decoded(data_sources) ==
    {i \in DOMAIN data_sources :
        /\ data_sources[i].rawFileData # NoRequest
        /\ data_sources[i].rawFileData.fileBuffer # ""}

\* main.py:992
RawSection(full_raw_data, toggle) ==
    IF full_raw_data # <<>> THEN "full_raw_data"
    ELSE IF ~toggle THEN "Raw file data not included (disabled in configuration)"
    ELSE "No raw data available"

\* main.py:644-1258
build_system_prompt(current_canvas, data_sources, toggle) ==
    LET counts == CanvasCounts(current_canvas)
        include == IncludeRaw(toggle)
        full_raw_data == IF include THEN FullRawData(data_sources) ELSE <<>>
    IN  [current_canvas |-> current_canvas, data_sources |-> data_sources,
         include_raw |-> toggle,
         raised |-> counts.raised \/ SummaryRaises(data_sources),
         node_count |-> counts.node_count, edge_count |-> counts.edge_count,
         full_raw_data |-> full_raw_data,
         raw_section |-> RawSection(full_raw_data, toggle),
         decoded |-> IF include THEN Decoded(data_sources) ELSE {}]

\* main.py:43, 488: one call of the builder, under either setting of
\* INCLUDE_RAW_FILE_DATA
BuildSystemPrompt(current_canvas, data_sources, toggle) ==
    /\ system_prompt = NoPrompt
    /\ system_prompt' = build_system_prompt(current_canvas, data_sources, toggle)
    /\ UNCHANGED <<relay_vars, ANTHROPIC_API_KEY, calls, file_vars, suspended,
                   service_response>>

PromptNext ==
    \E c \in CanvasTexts, ds \in DataSourceLists, toggle \in BOOLEAN :
        BuildSystemPrompt(c, ds, toggle)

PromptSpec == Init /\ [][PromptNext]_vars

(***************************************************************************)
(* The service as its clients see it: the routes of the app, the           *)
(* validation of a request body against its pydantic model, and the        *)
(* handlers.  The framework answers a path no route has with 404, a path   *)
(* asked with a method it has no route for with 405, and a body that lacks *)
(* a required field with 422, without calling a handler.                   *)
(***************************************************************************)
\* main.py:117, 326, 413, 449: the decorators of the app
Routes ==
    { [method |-> "GET", path |-> "/health", endpoint |-> "health_check"],
      [method |-> "POST", path |-> "/api/process-file", endpoint |-> "process_file"],
      [method |-> "POST", path |-> "/api/chat/generate-title", endpoint |-> "generate_title"],
      [method |-> "POST", path |-> "/api/chat/stream", endpoint |-> "stream_chat"] }

Methods == {"GET", "POST"}
\* the paths the clients of the service ask: test_api.py:13, 34, 53
Paths == {"/health", "/api/process-data", "/api/analyze"}

Route(method, path) ==
    IF \E r \in Routes : r.method = method /\ r.path = path
    THEN (CHOOSE r \in Routes : r.method = method /\ r.path = path).endpoint
    ELSE IF \E r \in Routes : r.path = path THEN "405"
    ELSE "404"

Answer(method, path, request, status, body) ==
    [method |-> method, path |-> path, request |-> request,
     status |-> status, body |-> body]

\* the body FastAPI sends for a request no handler answers
Detail(msg) == [NoBody EXCEPT !.detail = msg]

\* A health check that reports the client as configured whatever the key.
HealthAlwaysConfigured(key) == TRUE

\* main.py:123: bool(ANTHROPIC_API_KEY)
HealthConfigured(key) == key # ""

\* main.py:117-124
health_check ==
    [status |-> "healthy",
     anthropic_configured |-> HealthConfigured(ANTHROPIC_API_KEY),
     detail |-> ""]

\* A request that carries no body and goes to health_check or to no handler.
Serve(method, path) ==
    /\ Route(method, path) \in {"health_check", "404", "405"}
    /\ service_response' =
           CASE Route(method, path) = "health_check" ->
                    Answer(method, path, NoVal, 200, health_check)
             [] Route(method, path) = "405" ->
                    Answer(method, path, NoVal, 405, Detail("Method Not Allowed"))
             [] OTHER ->
                    Answer(method, path, NoVal, 404, Detail("Not Found"))
    /\ UNCHANGED <<relay_vars, ANTHROPIC_API_KEY, calls, file_vars, suspended,
                   system_prompt>>

\* main.py:91-95: the body of POST /api/process-file; username "" stands for
\* a body without that field (test_integration.py:56-60).
Usernames == {"", "testuser"}
Body(req, username) == [req |-> req, username |-> username]

\* main.py:95: username is a required field of FileProcessingRequest.
Valid(body) == body.username # ""

\* main.py:326-327: the body is validated, and process_file runs on a valid
\* one.
PostProcessFile(body) ==
    IF Valid(body)
    THEN ProcessFile(body.req)
    ELSE /\ fpc = "idle"
         /\ service_response' =
                Answer("POST", "/api/process-file", body, 422,
                       Detail("username: Field required"))
         /\ UNCHANGED <<relay_vars, ANTHROPIC_API_KEY, calls, file_vars,
                        suspended, system_prompt>>

\* the files the clients of the service upload: CSV files, with rows or
\* without (test_integration.py:27-39)
ServiceRequests ==
    {req \in Requests : req.fileType = "text/csv" /\ req.content.format = "csv"}

ServiceNext ==
    \/ \E method \in Methods, path \in Paths : Serve(method, path)
    \/ StreamChat
    \/ \E req \in ServiceRequests, username \in Usernames :
           PostProcessFile(Body(req, username))
    \/ \E text \in ResponseTexts : StreamText(text)
    \/ StreamRaises
    \/ \E result \in TrackOutcomes : GenerateSubsets(result)

ServiceSpec == Init /\ [][ServiceNext]_vars

(***************************************************************************)
(* Two chat turns served by one process.  Each POST /api/chat/stream gets  *)
(* its own stream_ai_response generator; the event loop runs one of them   *)
(* at a time and may switch to the other wherever the running one awaits   *)
(* or yields.  The variables of the relay are those of the running turn,   *)
(* suspended holds those of the other turn.                                *)
(***************************************************************************)
\* the running turn; peer is history: how many upstream events the other
\* turn had consumed when this one was suspended
Frame ==
    [current_tool_use |-> current_tool_use,
     tool_input_buffer |-> tool_input_buffer, out |-> out, pc |-> pc,
     ublock |-> ublock, blk |-> blk, last |-> last, nevents |-> nevents,
     nfrags |-> nfrags, received |-> received, peer |-> suspended.nevents]

\* A relay that keeps the accumulator in module-level variables, which all
\* turns share.
ResumedShared(own, shared) == shared

\* main.py:523-524: current_tool_use and tool_input_buffer are locals of the
\* generator, so a resumed turn finds those it left.
Resumed(own, shared) == own

Switch ==
    /\ suspended' = Frame
    /\ current_tool_use' =
           Resumed(suspended.current_tool_use, current_tool_use)
    /\ tool_input_buffer' =
           Resumed(suspended.tool_input_buffer, tool_input_buffer)
    /\ out' = suspended.out
    /\ pc' = suspended.pc
    /\ ublock' = suspended.ublock
    /\ blk' = suspended.blk
    /\ last' = suspended.last
    /\ nevents' = suspended.nevents
    /\ nfrags' = suspended.nfrags
    /\ received' = suspended.received
    /\ UNCHANGED <<ANTHROPIC_API_KEY, calls, file_vars, system_prompt,
                   service_response>>

\* The model answers each turn with edit_canvas blocks whose argument comes
\* in two fragments.
TurnFragments == {FragOpen, FragClose}

TwoTurnNext ==
    \/ StreamChat
    \/ /\ nevents + suspended.nevents < MaxTurnEvents
       /\ \/ ContentBlockStart(ToolBlock("edit_canvas"))
          \/ \E f \in TurnFragments : ContentBlockDelta(InputJsonDelta(f))
          \/ ContentBlockStop
          \/ MessageStop("unavailable")
    \/ Switch

TwoTurnSpec == Init /\ [][TwoTurnNext]_vars

(***************************************************************************)
(* A chat turn whose client may disconnect.  The response is a             *)
(* StreamingResponse over the generator (main.py:469-472): when the client *)
(* goes away the server cancels the task that iterates it, and the         *)
(* generator, suspended in an await, is ended there by CancelledError,     *)
(* which neither except Exception of main.py catches.                      *)
(***************************************************************************)
\* main.py:64-70: a cancelled track_token_usage had written its request to
\* the accounting store already, or had not.
CancelOutcomes == {"posted", "cancelled"}

\* main.py:526, 627-631: the generator is cancelled while it awaits the next
\* upstream event or the return of track_token_usage.
Disconnect(outcome) ==
    /\ pc \in {"streaming", "tracking"}
    /\ pc' = "cancelled"
    /\ calls' = IF pc = "tracking"
                THEN [calls EXCEPT ![Len(calls)].state = outcome]
                ELSE calls
    /\ last' = [last EXCEPT !.ev = "disconnect", !.nout = Len(out)]
    /\ UNCHANGED <<current_tool_use, tool_input_buffer, out, ublock, blk,
                   nevents, nfrags, received, ANTHROPIC_API_KEY, file_vars,
                   other_vars>>

DisconnectNext ==
    \/ StreamChat
    \/ ContentBlockStart(ToolBlock("edit_canvas"))
    \/ ContentBlockStart(TextBlock)
    \/ \E d \in DeltasOf(ublock) : ContentBlockDelta(d)
    \/ ContentBlockStop
    \/ \E final \in FinalUsage : MessageStop(final)
    \/ \E result \in TrackOutcomes : TrackTokenUsage(result)
    \/ \E outcome \in CancelOutcomes : Disconnect(outcome)

DisconnectSpec == Init /\ [][DisconnectNext]_vars

(***************************************************************************)
(* Reading the outward stream.                                             *)
(***************************************************************************)
Indices(type) == {i \in 1..Len(out) : out[i].type = type}

\* the events of one type that belong to tool_use block b, among out[1..upto]
Of(type, b, upto) == {i \in 1..upto : out[i].type = type /\ out[i].blk = b}

Min(S) == CHOOSE i \in S : \A j \in S : i <= j

\* The turn ends with its message_stop: the outward stream of the turn is
\* out[1..TurnEnd], through the first done.
TurnEnd == IF Indices("done") = {} THEN Len(out) ELSE Min(Indices("done"))

\* the results of the parse-and-emit of block b: a canvas_update or an error
Flushes(b) == Of("canvas_update", b, Len(out)) \cup Of("error", b, Len(out))

FirstFlushIs(b, type, at) ==
    /\ Flushes(b) # {}
    /\ out[Min(Flushes(b))].type = type
    /\ out[Min(Flushes(b))].at = at

\* what the event handled last appended to out
Appended == SubSeq(out, last.nout + 1, Len(out))
Types(evs) == [i \in 1..Len(evs) |-> evs[i].type]

\* the event handled last found an edit_canvas call to flush
HadToolCall == last.cur = "edit_canvas" /\ last.buf # <<>>

IsTextDelta(e) == e.type = "text_delta"

(***************************************************************************)
(* C1.  The outward stream of a turn contains at most one canvas_update,   *)
(* whatever the upstream sends (several tool_use blocks, content_block_stop*)
(* present or omitted, events after message_stop).                         *)
(***************************************************************************)
C1_AtMostOneCanvasUpdate == Cardinality(Indices("canvas_update")) <= 1

CanvasOfScenario ==
    <<"{", "Q", "nodes", "Q", ":", "[", "]", ",",
      "Q", "edges", "Q", ":", "[", "]", "}">>

\* the upstream was [start(tool_use edit_canvas), delta f1, delta f2, message_stop]
Scenario(f1, f2) ==
    /\ nevents = 4
    /\ last.ev = "message_stop"
    /\ last.cur = "edit_canvas"
    /\ last.buf = f1 \o f2
    /\ last.nout = 1
    /\ pc = "streaming"

C5_ParseFailureKeepsTurn ==
    (last.ev = "content_block_stop" /\ HadToolCall
        /\ ParseToolInput(last.buf).res # "ok")
    => /\ Types(Appended) = <<"error">>
       /\ current_tool_use = "None"
       /\ tool_input_buffer = <<>>
       /\ pc = "streaming"

(***************************************************************************)
(* C6.  Once message_stop has been reached the outward stream holds        *)
(* exactly one done, and done is its last event.                           *)
(***************************************************************************)
C6_DoneOnceAndLast ==
    (\E i \in 1..Len(out) : out[i].at = "message_stop")
    => /\ Cardinality(Indices("done")) = 1
       /\ out[Len(out)].type = "done"

(***************************************************************************)
(* C7.  Each tool_finish comes right after a canvas_update of the same     *)
(* tool call and each canvas_update is followed at once by its             *)
(* tool_finish.                                                            *)
(***************************************************************************)
C7_UpdateFinishPaired ==
    \A i \in 1..Len(out) :
        /\ out[i].type = "tool_finish"
            => i > 1 /\ out[i - 1].type = "canvas_update"
                     /\ out[i - 1].blk = out[i].blk
        /\ out[i].type = "canvas_update"
            => i < Len(out) /\ out[i + 1].type = "tool_finish"

C7_Witness == Indices("tool_finish") # {}

(***************************************************************************)
(* C8.  tool_start is emitted once at the start of an edit_canvas tool_use *)
(* block, and for no other event and no other block.                       *)
(***************************************************************************)
C8_ToolStartOnlyForEditCanvas ==
    IF last.ev = "content_block_start" /\ ublock = ToolBlock("edit_canvas")
    THEN Types(Appended) = <<"tool_start">>
    ELSE \A i \in 1..Len(Appended) : Appended[i].type # "tool_start"

(***************************************************************************)
(* C9.  The start, the deltas and the stop of a content block that is      *)
(* neither text nor the edit_canvas tool yield no outward event and leave  *)
(* the accumulator as it was.                                              *)
(***************************************************************************)
InertBlocks == {OtherBlock, ToolBlock("other_tool")}

C9_OtherBlocksInert ==
    (\/ last.ev = "content_block_start" /\ ublock \in InertBlocks
     \/ last.ev \in {"content_block_delta", "content_block_stop"}
            /\ last.block \in InertBlocks)
    => /\ Appended = <<>>
       /\ current_tool_use = last.cur
       /\ tool_input_buffer = last.buf

(***************************************************************************)
(* C10.  The text_delta events of the outward stream carry exactly the     *)
(* text fragments received, one event per fragment, in arrival order.      *)
(***************************************************************************)
C10_TextForwardedInOrder ==
    LET deltas == SelectSeq(out, IsTextDelta) IN
    /\ Len(deltas) = Len(received)
    /\ \A i \in 1..Len(deltas) : deltas[i].text = received[i]

C10_Witness ==
    /\ Len(received) = 2
    /\ received[1] = received[2]
    /\ current_tool_use = "edit_canvas"

(***************************************************************************)
(* C11.  A failure raised while the upstream stream is consumed (the       *)
(* iteration itself, the flush, the fetch of the final message) is caught  *)
(* by the handler of line 638: the event handled last yields exactly one   *)
(* error, every such error is the last outward event (no done and nothing  *)
(* else follows it), and the generator has returned.                       *)
(***************************************************************************)
C11_FailureGivesOneLastError ==
    /\ last.ev = "exception" =>
            /\ Types(Appended) = <<"error">>
            /\ pc = "failed"
    /\ \A i \in Indices("error") :
            out[i].error = "str(e)" => i = Len(out) /\ pc = "failed"

\* the upstream fails in the middle of a turn that has already yielded events
C11_Witness ==
    /\ last.ev = "exception"
    /\ last.nout >= 2
    /\ out[Len(out)].type = "error"

(***************************************************************************)
(* C12.  Without model credentials POST /api/chat/stream answers with one  *)
(* outward event, an error, and starts no turn: no prompt is built, no     *)
(* upstream stream is opened, no upstream event is consumed.               *)
(***************************************************************************)
C12_NoCredentialsOneError ==
    (anthropic_client = "None" /\ pc # "request") =>
        /\ Types(out) = <<"error">>
        /\ calls = <<>>
        /\ nevents = 0
        /\ pc = "ended"

C12_Witness ==
    /\ anthropic_client = "None"
    /\ last.ev = "request"
    /\ Len(out) = 1

(***************************************************************************)
(* C13.  An upstream event of any other type yields no outward event,      *)
(* raises nothing and leaves the accumulator as it was, wherever it        *)
(* occurs.                                                                 *)
(***************************************************************************)
C13_UnknownEventInert ==
    last.ev = "other" =>
        /\ Appended = <<>>
        /\ pc = "streaming"
        /\ current_tool_use = last.cur
        /\ tool_input_buffer = last.buf

\* an unknown event in the middle of an accumulated tool call
C13_Witness ==
    /\ last.ev = "other"
    /\ current_tool_use = "edit_canvas"
    /\ tool_input_buffer # <<>>
    /\ out # <<>>

(***************************************************************************)
(* Reading the answer of process_file.                                     *)
(***************************************************************************)
Responded == fpc = "responded"

\* The uploaded file reads as a dataset of n rows with the reader that the
\* fileType selects.
ReadsAs(req, n) ==
    /\ req.fileBuffer = "base64"
    /\ \/ /\ IsCsv(req.fileType)
          /\ req.content.format = "csv"
          /\ req.content.sheets = <<n>>
       \/ /\ ~IsCsv(req.fileType)
          /\ IsExcel(req.fileType)
          /\ req.content.format = "excel"
          /\ req.content.sheets # <<>>
          /\ Sum(req.content.sheets) = n

\* the response text was parsed for the answer
Analysed == Responded /\ Len(calls) = 2 /\ calls[2].name = "track_token_usage"

\* the text is not JSON, or has no file_schema or no subsets key, or its
\* subsets is not a non-empty list
BadStructure(text) ==
    LET p == json_loads(StripFences(text)) IN
    \/ ~p.ok
    \/ p.val.t # "obj"
    \/ <<"file_schema">> \notin DOMAIN p.val.m
    \/ <<"subsets">> \notin DOMAIN p.val.m
    \/ p.val.m[<<"subsets">>].t # "arr"
    \/ p.val.m[<<"subsets">>].m = <<>>

\* the value of a JSON number of one digit
NumberOf(v) == IF v.s = <<"5">> THEN 5 ELSE 7

(***************************************************************************)
(* C14.  A request whose fileType is neither CSV-like nor Excel-like is    *)
(* answered with HTTP status 400.                                          *)
(***************************************************************************)
C14_UnsupportedTypeIs400 ==
    (/\ Responded
     /\ file_request.fileBuffer = "base64"
     /\ ~IsCsv(file_request.fileType)
     /\ ~IsExcel(file_request.fileType)) => file_response.status = 400

(***************************************************************************)
(* C15.  Every answer of process_file has one of two shapes: success with  *)
(* a schema, a non-empty list of subsets and no error, or failure with an  *)
(* error message and neither schema nor subsets.                           *)
(***************************************************************************)
C15_ResultIsOneOfTwoShapes ==
    Responded =>
        \/ /\ file_response.success
           /\ file_response.file_schema # NoVal
           /\ file_response.subsets # <<>>
           /\ file_response.error = "None"
        \/ /\ ~file_response.success
           /\ file_response.error \notin {"None", ""}
           /\ file_response.file_schema = NoVal
           /\ file_response.subsets = <<>>

\* a success: the model answered with a schema and one subset
C15_Witness ==
    /\ Analysed
    /\ file_response.success
    /\ Len(file_response.subsets) = 1

(***************************************************************************)
(* C16.  A CSV or Excel file that reads as a dataset of 0 rows is answered *)
(* with success=false and a non-empty error, and neither the model nor the *)
(* accounting store is called.                                             *)
(***************************************************************************)
C16_EmptyDatasetNoModelCall ==
    (fpc # "idle" /\ ReadsAs(file_request, 0)) =>
        /\ Responded
        /\ ~file_response.success
        /\ file_response.error \notin {"None", ""}
        /\ calls = <<>>

\* a workbook of two empty sheets, with a client configured
C16_Witness ==
    /\ Responded
    /\ anthropic_client = "client"
    /\ ReadsAs(file_request, 0)
    /\ Len(file_request.content.sheets) = 2

(***************************************************************************)
(* C17.  A response text that is not JSON, lacks file_schema or subsets,   *)
(* or whose subsets is not a non-empty list is answered with success=false *)
(* and an error message, without schema and without subsets.               *)
(***************************************************************************)
C17_BadResponseIsFailure ==
    (Analysed /\ BadStructure(response_text)) =>
        /\ ~file_response.success
        /\ file_response.error \notin {"None", ""}
        /\ file_response.file_schema = NoVal
        /\ file_response.subsets = <<>>

\* a response that is JSON with both keys and an empty list of subsets
C17_Witness ==
    /\ Analysed
    /\ json_loads(StripFences(response_text)).ok
    /\ HasKey(json_loads(StripFences(response_text)).val, "subsets")
    /\ BadStructure(response_text)
    /\ file_response.error = "No subsets generated by Claude"

(***************************************************************************)
(* C18.  In a success=true answer every subset has a non-empty dataPoints  *)
(* in which every y is a finite number.                                    *)
(***************************************************************************)
C18_SubsetsAreDrawable ==
    (Responded /\ file_response.success) =>
        \A i \in DOMAIN file_response.subsets :
            LET dataPoints == file_response.subsets[i].m[<<"dataPoints">>].m IN
            /\ dataPoints # <<>>
            /\ \A j \in DOMAIN dataPoints :
                   /\ <<"y">> \in DOMAIN dataPoints[j].m
                   /\ dataPoints[j].m[<<"y">>].t = "num"

(***************************************************************************)
(* C19.  In a success=true answer the rowCount of the schema is the number *)
(* of rows of the dataset that was analysed, and the column names are      *)
(* non-empty and pairwise distinct.                                        *)
(***************************************************************************)
C19_SchemaMatchesDataset ==
    (Responded /\ file_response.success) =>
        LET schema == file_response.file_schema.m
            columns == schema[<<"columns">>].m
            name(i) == Get(columns[i].m, <<"name">>, JStr(<<>>)).s
        IN  /\ NumberOf(schema[<<"rowCount">>]) = Sum(file_request.content.sheets)
            /\ \A i \in DOMAIN columns : name(i) # <<>>
            /\ \A i, j \in DOMAIN columns : i # j => name(i) # name(j)

(***************************************************************************)
(* C20.  Usage reporting is fire-and-forget: while the accounting call of  *)
(* a chat turn is pending its done has already been yielded, and while the *)
(* accounting call of a file analysis is pending the answer has already    *)
(* been returned.                                                          *)
(***************************************************************************)
C20_DoneNotBehindAccounting ==
    (/\ calls # <<>>
     /\ calls[Len(calls)].name = "track_token_usage"
     /\ calls[Len(calls)].state = "pending") =>
        IF fpc = "idle"
        THEN /\ pc # "tracking"
             /\ out # <<>>
             /\ out[Len(out)].type = "done"
        ELSE Responded

(***************************************************************************)
(* C21.  A failure of the accounting call is swallowed: whether the post   *)
(* went through or raised, the message_stop of a chat turn yields what the *)
(* flush yields and then done, with no error and the turn still running,   *)
(* and the answer of a file analysis is the one its response text gives.   *)
(***************************************************************************)
C21_AccountingFailureSwallowed ==
    /\ (last.ev = "message_stop" /\ last.track # "none") =>
            /\ pc = "streaming"
            /\ Appended =
                   (IF MessageStopShouldFlush(last.cur, last.buf)
                    THEN FlushEvents(ParseToolInput(last.buf), blk, "message_stop")
                    ELSE <<>>)
                       \o <<Done(UsageOf("usage"), "message_stop")>>
    /\ Analysed => file_response = ParseResponse(response_text)

\* the accounting post raised at a message_stop that flushed a canvas
C21_Witness ==
    /\ last.ev = "message_stop"
    /\ last.track = "raised"
    /\ Types(Appended) = <<"canvas_update", "tool_finish", "done">>

(***************************************************************************)
(* Reading the prompt.                                                     *)
(***************************************************************************)
Built == system_prompt # NoPrompt

\* the text is not JSON, or not a JSON object, or an object whose nodes or
\* edges is a number
MalformedCanvas(text) ==
    LET p == json_loads(text) IN
    \/ ~p.ok
    \/ p.val.t # "obj"
    \/ \E k \in {<<"nodes">>, <<"edges">>} :
           k \in DOMAIN p.val.m /\ p.val.m[k].t \in {"num", "nan"}

C23_ToggleOffNoRawData ==
    (Built /\ ~system_prompt.include_raw) =>
        /\ system_prompt.decoded = {}
        /\ system_prompt.full_raw_data = <<>>
        /\ system_prompt.raw_section =
               "Raw file data not included (disabled in configuration)"

\* the toggle is off and a data source carries a readable file of 5 rows
C23_Witness ==
    /\ Built
    /\ ~system_prompt.include_raw
    /\ ~system_prompt.raised
    /\ \E i \in DOMAIN system_prompt.data_sources :
           RawData(system_prompt.data_sources[i]) =
               <<RawEntry("header", 0), RawEntry("rows", 5)>>

(***************************************************************************)
(* Reading two turns.                                                      *)
(***************************************************************************)
\* The accumulator the last step of a turn left, from what that step read
\* (f.last) and the block it opened (f.ublock).
LeftBy(f) ==
    LET l == f.last
        read == [cur |-> l.cur, buf |-> l.buf]
    IN  CASE l.ev = "content_block_start" ->
                IF f.ublock.type = "tool_use"
                THEN [cur |-> f.ublock.name, buf |-> <<>>] ELSE read
          [] l.ev = "content_block_delta" ->
                [cur |-> l.cur, buf |-> DeltaBuffer(l.buf, l.delta)]
          [] l.ev = "content_block_stop" ->
                IF StopShouldFlush(l.cur, l.buf) /\ Caught(ParseToolInput(l.buf))
                THEN AfterFlush(l.cur, l.buf) ELSE read
          [] OTHER -> read

OwnAccumulator(f) ==
    [cur |-> f.current_tool_use, buf |-> f.tool_input_buffer] = LeftBy(f)

\* what a turn alone yields for one edit_canvas block sent in two fragments
SoloBlock ==
    StartEvents(ToolBlock("edit_canvas"), 1)
        \o FlushEvents(ParseToolInput(FragOpen \o FragClose), 1,
                       "content_block_stop")

(***************************************************************************)
(* C24.  The accumulator belongs to one turn: however two concurrent chat  *)
(* turns interleave, the accumulator each turn holds, running or           *)
(* suspended, is the one its own last step left, so each step of a turn    *)
(* reads what the turn would read alone and yields what it would yield     *)
(* alone; a turn whose four events are one block sent as FragOpen,         *)
(* FragClose yields the canvas of these two fragments and no other.        *)
(***************************************************************************)
C24_AccumulatorOwnedByTurn ==
    /\ OwnAccumulator(Frame)
    /\ OwnAccumulator(suspended)
    /\ \A f \in {Frame, suspended} :
           (/\ f.nevents = 4
            /\ f.blk = 1
            /\ f.last.ev = "content_block_stop"
            /\ f.nfrags = 2
            /\ f.last.buf = FragOpen \o FragClose) => f.out = SoloBlock

\* one turn was suspended after its first fragment, before the other turn
\* consumed anything; the other turn then received its whole block and
\* yielded the canvas update of a turn alone
C24_Witness ==
    /\ suspended.nevents = 2
    /\ suspended.peer = 0
    /\ suspended.tool_input_buffer = FragOpen
    /\ last.ev = "content_block_stop"
    /\ out = SoloBlock
    /\ Types(out) = <<"tool_start", "canvas_update", "tool_finish">>

(***************************************************************************)
(* Reading the answers of the service.                                     *)
(***************************************************************************)
Served(method, path) ==
    service_response.method = method /\ service_response.path = path

\* POST /api/chat/stream answered with the single error line
ShortCircuited == pc = "ended" /\ out = NotConfiguredEvents

(***************************************************************************)
(* C25.  GET /health is answered 200 with status "healthy", and its        *)
(* anthropic_configured flag is true exactly when a model client exists,   *)
(* which is exactly when POST /api/chat/stream, once asked, does not       *)
(* short-circuit with the not-configured error.                            *)
(***************************************************************************)
C25_HealthReportsClient ==
    Served("GET", "/health") =>
        /\ service_response.status = 200
        /\ service_response.body.status = "healthy"
        /\ service_response.body.anthropic_configured
               <=> anthropic_client # "None"
        /\ pc # "request" =>
               (service_response.body.anthropic_configured <=> ~ShortCircuited)

\* no key: the health check says so and the chat request short-circuits
C25_Witness ==
    /\ Served("GET", "/health")
    /\ ~service_response.body.anthropic_configured
    /\ ShortCircuited

(***************************************************************************)
(* C26.  POST /api/process-file with a body of fileBuffer (the base64 of a *)
(* CSV file with rows), fileName and fileType text/csv, and no other       *)
(* field, is answered 200.                                                 *)
(***************************************************************************)
C26_BodyWithoutUsernameAnswered200 ==
    (/\ Served("POST", "/api/process-file")
     /\ service_response.request.username = ""
     /\ service_response.request.req.fileType = "text/csv"
     /\ ReadsAs(service_response.request.req, 5)) =>
        service_response.status = 200

(***************************************************************************)
(* C27.  POST /api/process-data and POST /api/analyze are answered 200.    *)
(***************************************************************************)
C27_DataRoutesAnswered200 ==
    (\E path \in {"/api/process-data", "/api/analyze"} :
        Served("POST", path)) => service_response.status = 200

(***************************************************************************)
(* Reading the flushes of the relay.                                       *)
(***************************************************************************)
\* the event handled last is a content_block_stop or a message_stop that
\* parsed the buffered argument and yielded its result
Flushed ==
    /\ last.ev \in {"content_block_stop", "message_stop",
                    "message_stop, awaiting track_token_usage"}
    /\ HadToolCall
    /\ Caught(ParseToolInput(last.buf))

(***************************************************************************)
(* C28.  After every parse-and-emit of the buffered argument, at           *)
(* content_block_stop or at message_stop, with a canvas update or with an  *)
(* error, the accumulator is reset: no tool name, empty buffer.            *)
(***************************************************************************)
C28_AccumulatorResetAfterFlush ==
    Flushed => (current_tool_use = "None" /\ tool_input_buffer = <<>>)

(***************************************************************************)
(* C29.  The buffer is emptied at the content_block_start of a tool_use    *)
(* block, each partial_json fragment is put at its end, and no other event *)
(* but a flush touches it, so the argument parsed is the concatenation of  *)
(* the fragments in arrival order; the canvas of a canvas_update is the    *)
(* canvas_json string of that argument as it stands, and its explanation   *)
(* is the explanation of that argument.                                    *)
(***************************************************************************)
C29_ArgumentIsConcatenation ==
    /\ (last.ev = "content_block_start" /\ ublock.type = "tool_use") =>
            tool_input_buffer = <<>>
    /\ (last.ev = "content_block_start" /\ ublock.type # "tool_use") =>
            tool_input_buffer = last.buf
    /\ last.ev = "content_block_delta" =>
            tool_input_buffer =
                IF last.delta.kind = "partial_json"
                THEN last.buf \o last.delta.partial_json ELSE last.buf
    /\ (last.ev = "content_block_stop" /\ ~HadToolCall) =>
            tool_input_buffer = last.buf
    /\ last.ev \in {"other", "message_stop",
                    "message_stop, awaiting track_token_usage"} =>
            tool_input_buffer = last.buf
    /\ \A i \in DOMAIN Appended :
           Appended[i].type = "canvas_update" =>
               LET arg == json_loads(last.buf) IN
               /\ arg.ok
               /\ arg.val.t = "obj"
               /\ Appended[i].canvas = arg.val.m[<<"canvas_json">>].s
               /\ Appended[i].explanation = arg.val.m[<<"explanation">>]

\* an argument that came in two fragments is flushed with success
C29_Witness ==
    /\ last.ev = "content_block_stop"
    /\ nfrags = 2
    /\ last.buf = FragOpen \o FragClose
    /\ Types(Appended) = <<"canvas_update", "tool_finish">>
    /\ Appended[1].explanation = JStr(<<"cleared">>)

(***************************************************************************)
(* C30.  In a turn that reaches done, every tool_start is followed, before *)
(* the done, by a tool_finish or an error of the same tool call.           *)
(***************************************************************************)
C30_ToolStartIsEnded ==
    Indices("done") # {} =>
        \A i \in Indices("tool_start") :
            i < TurnEnd =>
                \E j \in (i + 1)..(TurnEnd - 1) :
                    /\ out[j].type \in {"tool_finish", "error"}
                    /\ out[j].blk = out[i].blk

(***************************************************************************)
(* Reading the usage reports.                                              *)
(***************************************************************************)
\* the calls of track_token_usage made so far
Reports == {i \in 1..Len(calls) : calls[i].name = "track_token_usage"}

\* a message_stop of the turn found a final message with a usage
UsageKnown ==
    \/ pc = "tracking"
    \/ \E i \in Indices("done") : out[i].usage # EmptyUsage

(***************************************************************************)
(* C31.  A chat turn that reaches message_stop with the final usage known  *)
(* issues exactly one usage report, for the username of the request, with  *)
(* tokens = input_tokens + output_tokens, after the flush of the tool call *)
(* of that message_stop; a turn that fails before message_stop issues      *)
(* none.                                                                   *)
(***************************************************************************)
C31_OneUsageReport ==
    /\ UsageKnown => Cardinality(Reports) = 1
    /\ \A i \in Reports :
           /\ calls[i].args.username = Username
           /\ calls[i].args.tokens =
                  FinalMessageUsage.input_tokens + FinalMessageUsage.output_tokens
    /\ (pc = "tracking" /\ HadToolCall) =>
           Types(Appended) \in {<<"canvas_update", "tool_finish">>, <<"error">>}
    /\ (pc = "failed" /\ Indices("done") = {} /\ last.ev # "message_stop") =>
           Reports = {}

(***************************************************************************)
(* C32.  A message_stop handled to its end (its flush, if any, did not     *)
(* abort the turn) yields done as its last event: with the usage of the    *)
(* final message when that is known, and with an empty usage when the      *)
(* final message or its usage cannot be obtained.                          *)
(***************************************************************************)
C32_DoneUsageBestEffort ==
    (/\ last.ev = "message_stop"
     /\ HadToolCall => Caught(ParseToolInput(last.buf))) =>
        /\ Appended # <<>>
        /\ Appended[Len(Appended)].type = "done"
        /\ Appended[Len(Appended)].usage =
               IF last.track # "none" THEN FinalMessageUsage ELSE EmptyUsage

(***************************************************************************)
(* C33.  When the client disconnects after the final usage of the turn has *)
(* become known, the usage report of the turn still reaches the accounting *)
(* store: no report is left cancelled.                                     *)
(***************************************************************************)
C33_DisconnectKeepsReport ==
    pc = "cancelled" =>
        \A i \in Reports : calls[i].state \in {"returned", "posted"}

(***************************************************************************)
(* C34.  The content_block_start of a tool_use block leaves an empty       *)
(* buffer under the name of the new block, whatever was buffered before,   *)
(* and yields tool_start and nothing else: content of an earlier           *)
(* edit_canvas block that was never closed is dropped with no              *)
(* canvas_update and no error, and the first fragment that follows is the  *)
(* whole buffer.                                                           *)
(***************************************************************************)
C34_ToolStartEmptiesBuffer ==
    /\ (last.ev = "content_block_start" /\ ublock.type = "tool_use") =>
           /\ tool_input_buffer = <<>>
           /\ current_tool_use = ublock.name
           /\ Types(Appended) = <<"tool_start">>
           /\ Flushes(blk) = {}
    /\ (/\ last.ev = "content_block_delta"
        /\ last.delta.kind = "partial_json"
        /\ last.buf = <<>>) => tool_input_buffer = last.delta.partial_json

\* a second tool_use block starts over the buffered first fragment of an
\* edit_canvas block that got no content_block_stop
C34_Witness ==
    /\ last.ev = "content_block_start"
    /\ ublock.type = "tool_use"
    /\ blk = 2
    /\ last.cur = "edit_canvas"
    /\ last.buf = FragOpen
    /\ Flushes(1) = {}
    /\ tool_input_buffer = <<>>

(***************************************************************************)
(* C35.  A content_block_delta with a text fragment yields one text_delta  *)
(* of that text and leaves the tool name and the buffer as they were, also *)
(* while a tool call is open; one with a partial_json fragment puts the    *)
(* fragment at the end of the buffer, leaves the tool name and yields      *)
(* nothing.                                                                *)
(***************************************************************************)
C35_DeltaHasOneEffect ==
    last.ev = "content_block_delta" =>
        /\ current_tool_use = last.cur
        /\ last.delta.kind = "text" =>
               /\ Appended = <<TextDeltaEvent(last.delta.text)>>
               /\ tool_input_buffer = last.buf
        /\ last.delta.kind = "partial_json" =>
               /\ Appended = <<>>
               /\ tool_input_buffer = last.buf \o last.delta.partial_json

\* a text fragment arrives while an edit_canvas call holds a fragment
C35_Witness ==
    /\ last.ev = "content_block_delta"
    /\ last.delta.kind = "text"
    /\ last.cur = "edit_canvas"
    /\ last.buf = FragOpen
    /\ tool_input_buffer = FragOpen
    /\ Types(Appended) = <<"text_delta">>

(***************************************************************************)
(* Reading the calls of a file analysis.                                   *)
(***************************************************************************)
ModelCalls == {i \in 1..Len(calls) : calls[i].name = "messages.stream"}

(***************************************************************************)
(* C36.  In a file analysis every model call that completes is followed by *)
(* one usage report, issued before the response text is parsed (no answer  *)
(* exists while it is awaited), whether the text then validates or not; a  *)
(* model call that fails is followed by none.                              *)
(***************************************************************************)
C36_ReportPerCompletedModelCall ==
    /\ \A i \in ModelCalls :
           /\ calls[i].state = "returned" =>
                  /\ i + 1 \in Reports
                  /\ Cardinality(Reports) = 1
                  /\ calls[i + 1].args.tokens =
                         FinalMessageUsage.input_tokens
                             + FinalMessageUsage.output_tokens
           /\ calls[i].state # "returned" => Reports = {}
    /\ ModelCalls = {} => Reports = {}
    /\ fpc = "tracking" =>
           /\ Cardinality(Reports) = 1
           /\ file_response = NoResponse

\* the report was issued and the text then failed validation
C36_Witness ==
    /\ Responded
    /\ ~file_response.success
    /\ Cardinality(Reports) = 1
    /\ calls[1].state = "returned"
    /\ BadStructure(response_text)

(***************************************************************************)
(* C37.  A process-file request calls the model at most once.  When the    *)
(* call fails, or its text is not the structure asked for, the answer is   *)
(* success = false with an error.  When the buffer is not base64, the      *)
(* fileType is unsupported, the dataset is empty or no client is           *)
(* configured, the request is answered success = false at once and the     *)
(* model is never called.                                                  *)
(***************************************************************************)
C37_AtMostOneModelCall ==
    /\ Cardinality(ModelCalls) <= 1
    /\ (/\ Responded
        /\ ModelCalls # {}
        /\ \/ calls[1].state = "raised"
           \/ BadStructure(response_text)) =>
            /\ ~file_response.success
            /\ file_response.error # "None"
    /\ (/\ fpc # "idle"
        /\ \/ file_request.fileBuffer # "base64"
           \/ ~IsCsv(file_request.fileType) /\ ~IsExcel(file_request.fileType)
           \/ ReadsAs(file_request, 0)
           \/ anthropic_client = "None") =>
            /\ ModelCalls = {}
            /\ Responded
            /\ ~file_response.success

\* the one model call failed and the request was answered
C37_Witness ==
    /\ Responded
    /\ Len(calls) = 1
    /\ calls[1].name = "messages.stream"
    /\ calls[1].state = "raised"
    /\ ~file_response.success

(***************************************************************************)
(* Reading the fences of a response text.                                  *)
(***************************************************************************)
\* an opening marker, with or without the word json, and a closing marker,
\* with whitespace around them or without
OpeningFences ==
    { <<"FENCE">>, <<"FENCE", "json">>, <<"FENCE", "WS">>,
      <<"FENCE", "json", "WS">>, <<"WS", "FENCE", "WS">>,
      <<"WS", "FENCE", "json", "WS">> }
ClosingFences == { <<"FENCE">>, <<"WS", "FENCE">>, <<"WS", "FENCE", "WS">> }

\* the text is JSON and nothing else
BarePayload(text) == json_loads(text).ok

(***************************************************************************)
(* C38.  The stripping of code fences is transparent.  The answer to a     *)
(* response text that is a payload between an opening and a closing fence  *)
(* is the answer to the payload alone; the answer to a bare payload is the *)
(* answer any fenced form of it would get, and the stripping returns a     *)
(* bare payload as it is.                                                  *)
(***************************************************************************)
C38_FenceStrippingTransparent ==
    Analysed =>
        /\ \A payload \in ResponseTexts, open \in OpeningFences,
              close \in ClosingFences :
               (BarePayload(payload)
                    /\ response_text = open \o payload \o close) =>
                   file_response = ParseResponse(payload)
        /\ BarePayload(response_text) =>
               /\ StripFences(response_text) = response_text
               /\ \A open \in OpeningFences, close \in ClosingFences :
                      ParseResponse(open \o response_text \o close)
                          = file_response

\* the valid payload came in a json fence and was answered as the payload
C38_Witness ==
    /\ Analysed
    /\ response_text =
           <<"FENCE", "json", "WS">> \o GoodResponse \o <<"WS", "FENCE">>
    /\ file_response.success
    /\ file_response = ParseResponse(GoodResponse)

====
